---- MODULE Spec2Model ----
(***************************************************************************)
(* A model of the TOON codec of rust_toonify: the value model (types.rs),  *)
(* the text utilities (utils.rs), the encoder (encoder.rs) and the         *)
(* recursive-descent decoder (decoder.rs).                                 *)
(*                                                                         *)
(* A text is a sequence of characters; a character is a one-character      *)
(* string, except the control characters, which are named atoms.  f64      *)
(* numbers are exact decimals n / 10^sc (sc minimal); HashMap objects are  *)
(* sequences of <<key, value>> pairs with distinct keys, the sequence      *)
(* order being the map's iteration order, and are compared through Canon.  *)
(***************************************************************************)
EXTENDS Integers, Sequences, FiniteSets, TLC

\* op: the call made last; value: the ToonValue or string handed to encode or
\* escape_str; text: the text produced or handed to decode; result: what decode
\* or unescape_str returned; prev: the result of the call before
VARIABLES op, value, text, result, prev

vars == <<op, value, text, result, prev>>

(***************************************************************************)
(* Characters                                                              *)
(***************************************************************************)
NUL == "<NUL>"
SOH == "<SOH>"
BS  == "<BS>"
TAB == "<TAB>"
LF  == "<LF>"
VT  == "<VT>"
FF  == "<FF>"
CR  == "<CR>"
ESC == "<ESC>"
DEL == "<DEL>"
EAcute == "<e-acute>"
None == "<None>"

GRAVE == "<GRAVE>"
APOS == "<APOS>"
BSL == "\\"
DQ  == "\""

Lower == <<"a","b","c","d","e","f","g","h","i","j","k","l","m",
           "n","o","p","q","r","s","t","u","v","w","x","y","z">>
Upper == <<"A","B","C","D","E","F","G","H","I","J","K","L","M",
           "N","O","P","Q","R","S","T","U","V","W","X","Y","Z">>
Digits == <<"0","1","2","3","4","5","6","7","8","9">>

Range(f) == {f[i] : i \in DOMAIN f}

\* ASCII 0x20 .. 0x7e in code order
AsciiPrintable ==
    <<" ","!",DQ,"#","$","%","&",APOS,"(",")","*","+",",","-",".","/">>
    \o Digits \o <<":",";","<","=",">","?","@">>
    \o Upper \o <<"[",BSL,"]","^","_",GRAVE>>
    \o Lower \o <<"{","|","}","~">>

\* char as u32, for the characters of the model
CodeOf(c) ==
    CASE c = NUL -> 0
      [] c = SOH -> 1
      [] c = BS  -> 8
      [] c = TAB -> 9
      [] c = LF  -> 10
      [] c = VT  -> 11
      [] c = FF  -> 12
      [] c = CR  -> 13
      [] c = ESC -> 27
      [] c = DEL -> 127
      [] c = EAcute -> 233
      [] OTHER -> 31 + (CHOOSE i \in DOMAIN AsciiPrintable : AsciiPrintable[i] = c)

NamedChars == {NUL, SOH, BS, TAB, LF, VT, FF, CR, ESC, DEL, EAcute} \cup Range(AsciiPrintable)

\* std::char::from_u32: None for surrogates and codes above 0x10FFFF
from_u32(code) ==
    IF code > 1114111 \/ (code >= 55296 /\ code <= 57343) THEN None
    ELSE IF \E c \in NamedChars : CodeOf(c) = code
         THEN CHOOSE c \in NamedChars : CodeOf(c) = code
         ELSE "<U+" \o ToString(code) \o ">"

\* char::is_control (general category Cc)
is_control(c) == c \in {NUL, SOH, BS, TAB, LF, VT, FF, CR, ESC, DEL}

\* char::is_whitespace (White_Space)
is_whitespace(c) == c \in {" ", TAB, LF, VT, FF, CR}

is_ascii_digit(c) == c \in Range(Digits)

\* char::is_alphabetic / char::is_alphanumeric
is_alphabetic(c) == c \in Range(Lower) \cup Range(Upper) \cup {EAcute}
is_alphanumeric(c) == is_alphabetic(c) \/ is_ascii_digit(c)

is_ident_start(c) == is_alphabetic(c) \/ c = "_"

is_ident_continue(c) == is_alphanumeric(c) \/ c = "_" \/ c = "-" \/ c = "."

(***************************************************************************)
(* Text utilities                                                          *)
(***************************************************************************)
HexDigits == <<"0","1","2","3","4","5","6","7","8","9","a","b","c","d","e","f">>

RECURSIVE HexOf(_, _)
\* {:0width x}: lower-case hex, zero padded to width
HexOf(code, width) ==
    IF width = 0 /\ code = 0 THEN <<>>
    ELSE HexOf(code \div 16, IF width > 0 THEN width - 1 ELSE 0)
         \o <<HexDigits[(code % 16) + 1]>>

escape_char(c) ==
    CASE c = BSL -> <<BSL, BSL>>
      [] c = DQ  -> <<BSL, DQ>>
      [] c = LF  -> <<BSL, "n">>
      [] c = CR  -> <<BSL, "r">>
      [] c = TAB -> <<BSL, "t">>
      [] c = NUL -> <<BSL, "0">>
      [] c = BS  -> <<BSL, "b">>
      [] c = FF  -> <<BSL, "f">>
      [] OTHER ->
           IF is_control(c)
           THEN IF CodeOf(c) <= 65535
                THEN <<BSL, "u">> \o HexOf(CodeOf(c), 4)
                ELSE <<BSL, "U">> \o HexOf(CodeOf(c), 8)
           ELSE <<c>>

RECURSIVE escape_str(_)
escape_str(s) ==
    IF s = <<>> THEN <<>> ELSE escape_char(Head(s)) \o escape_str(Tail(s))

HexVal(c) ==
    IF c \in Range(Digits) THEN (CHOOSE i \in 1..10 : Digits[i] = c) - 1
    ELSE IF c \in Range(HexDigits) THEN (CHOOSE i \in 1..16 : HexDigits[i] = c) - 1
    ELSE IF c \in {"A","B","C","D","E","F"}
         THEN 9 + (CHOOSE i \in 1..6 : Upper[i] = c)
         ELSE -1

RECURSIVE HexAcc(_, _)
\* digits of a radix-16 literal, most significant first; -1 on an invalid
\* digit; saturates above the u32 codes char::from_u32 accepts
HexAcc(h, acc) ==
    IF h = <<>> THEN acc
    ELSE IF HexVal(Head(h)) < 0 THEN -1
    ELSE HexAcc(Tail(h), IF acc * 16 + HexVal(Head(h)) > 1114111
                         THEN 1114112 ELSE acc * 16 + HexVal(Head(h)))

\* u32::from_str_radix(h, 16): -1 for Err; a leading plus sign is accepted
from_str_radix16(h) ==
    IF h = <<>> THEN -1
    ELSE IF Head(h) = "+" THEN (IF Len(h) = 1 THEN -1 ELSE HexAcc(Tail(h), 0))
    ELSE HexAcc(h, 0)

Take(s, n) == SubSeq(s, 1, IF n < Len(s) THEN n ELSE Len(s))
Drop(s, n) == SubSeq(s, (IF n < Len(s) THEN n ELSE Len(s)) + 1, Len(s))

StrOk(s) == [ok |-> TRUE, s |-> s]
StrErr == [ok |-> FALSE, s |-> <<>>]

\* the \uXXXX and \UXXXXXXXX arms of unescape_str: the character, or None
unescape_unicode(hex, n) ==
    IF Len(hex) # n THEN None
    ELSE IF from_str_radix16(hex) < 0 THEN None
    ELSE from_u32(from_str_radix16(hex))

RECURSIVE unescape_loop(_, _)
unescape_loop(s, acc) ==
    IF s = <<>> THEN StrOk(acc)
    ELSE IF Head(s) # BSL THEN unescape_loop(Tail(s), Append(acc, Head(s)))
    ELSE IF Len(s) = 1 THEN StrErr
    ELSE LET e == s[2]
             rest == Drop(s, 2)
         IN CASE e = BSL -> unescape_loop(rest, Append(acc, BSL))
              [] e = DQ  -> unescape_loop(rest, Append(acc, DQ))
              [] e = "/" -> unescape_loop(rest, Append(acc, "/"))
              [] e = "b" -> unescape_loop(rest, Append(acc, BS))
              [] e = "f" -> unescape_loop(rest, Append(acc, FF))
              [] e = "n" -> unescape_loop(rest, Append(acc, LF))
              [] e = "r" -> unescape_loop(rest, Append(acc, CR))
              [] e = "t" -> unescape_loop(rest, Append(acc, TAB))
              [] e = "u" ->
                   LET c == unescape_unicode(Take(rest, 4), 4)
                   IN IF c = None THEN StrErr
                      ELSE unescape_loop(Drop(rest, 4), Append(acc, c))
              [] e = "U" ->
                   LET c == unescape_unicode(Take(rest, 8), 8)
                   IN IF c = None THEN StrErr
                      ELSE unescape_loop(Drop(rest, 8), Append(acc, c))
              [] OTHER -> StrErr

unescape_str(s) == unescape_loop(s, <<>>)

T_true == <<"t","r","u","e">>
T_false == <<"f","a","l","s","e">>
T_null == <<"n","u","l","l">>
T_inf == <<"i","n","f">>
T_neg_inf == <<"-","i","n","f">>
T_nan == <<"n","a","n">>
T_infinity == <<"i","n","f","i","n","i","t","y">>
T_neg_infinity == <<"-","i","n","f","i","n","i","t","y">>

\* needs_quotes without the final check for the reserved keywords
needs_quotes_unreserved(s) ==
    IF s = <<>> THEN TRUE
    ELSE IF ~is_ident_start(Head(s)) THEN TRUE
    ELSE \E i \in 2..Len(s) : ~is_ident_continue(s[i])

needs_quotes(s) ==
    IF s = <<>> THEN TRUE
    ELSE IF ~is_ident_start(Head(s)) THEN TRUE
    ELSE IF \E i \in 2..Len(s) : ~is_ident_continue(s[i]) THEN TRUE
    ELSE s \in {T_true, T_false, T_null, T_inf, T_neg_inf, T_nan,
                T_infinity, T_neg_infinity}

RECURSIVE NatText(_)
\* decimal digits of a natural number
NatText(n) ==
    IF n < 10 THEN <<Digits[n + 1]>> ELSE NatText(n \div 10) \o <<Digits[(n % 10) + 1]>>

RECURSIVE Pow10(_)
Pow10(k) == IF k = 0 THEN 1 ELSE 10 * Pow10(k - 1)

RECURSIVE ZeroPad(_, _)
ZeroPad(s, w) == IF Len(s) >= w THEN s ELSE ZeroPad(<<"0">> \o s, w)

Abs(n) == IF n < 0 THEN -n ELSE n

\* format_number with one decimal place kept for an integral value
format_number_one_decimal(n, sc) ==
    IF sc = 0
    THEN (IF n < 0 THEN <<"-">> ELSE <<>>) \o NatText(Abs(n)) \o <<".", "0">>
    ELSE (IF n < 0 THEN <<"-">> ELSE <<>>)
         \o NatText(Abs(n) \div Pow10(sc)) \o <<".">>
         \o ZeroPad(NatText(Abs(n) % Pow10(sc)), sc)

\* format_number on the f64 n / 10^sc
format_number(n, sc) ==
    IF sc = 0
    THEN (IF n < 0 THEN <<"-">> ELSE <<>>) \o NatText(Abs(n))
    ELSE (IF n < 0 THEN <<"-">> ELSE <<>>)
         \o NatText(Abs(n) \div Pow10(sc)) \o <<".">>
         \o ZeroPad(NatText(Abs(n) % Pow10(sc)), sc)

(***************************************************************************)
(* Value model                                                             *)
(***************************************************************************)
Null == [t |-> "Null"]
Bool(b) == [t |-> "Bool", b |-> b]
\* the f64 n / 10^sc, sc minimal
Number(n, sc) == [t |-> "Number", n |-> n, sc |-> sc]
Integer(n) == Number(n, 0)
String(s) == [t |-> "String", s |-> s]
Array(a) == [t |-> "Array", a |-> a]
\* o: the entries <<key, value>> in the map's iteration order, keys distinct
Object(o) == [t |-> "Object", o |-> o]

is_primitive(v) == v.t \in {"Null", "Bool", "Number", "String"}

Keys(o) == {o[i][1] : i \in DOMAIN o}

contains_key(o, k) == k \in Keys(o)

\* HashMap::get / Index: the value stored under k (k is a key of o)
get(o, k) == o[CHOOSE i \in DOMAIN o : o[i][1] = k][2]

\* an insert under which a present key keeps its old value
insert_keep_first(o, k, v) ==
    IF contains_key(o, k) THEN o ELSE Append(o, <<k, v>>)

\* HashMap::insert: a present key keeps its entry and takes the new value
insert(o, k, v) ==
    IF contains_key(o, k)
    THEN [i \in DOMAIN o |-> IF o[i][1] = k THEN <<k, v>> ELSE o[i]]
    ELSE Append(o, <<k, v>>)

RECURSIVE Canon(_)
\* the value with every object turned into the function key -> value, so that
\* = on Canon is ToonValue's PartialEq (HashMap equality ignores order)
Canon(v) ==
    CASE v.t = "Array" -> [t |-> "Array", a |-> [i \in DOMAIN v.a |-> Canon(v.a[i])]]
      [] v.t = "Object" -> [t |-> "Object", o |-> [k \in Keys(v.o) |-> Canon(get(v.o, k))]]
      [] OTHER -> v

(***************************************************************************)
(* Encoder                                                                 *)
(***************************************************************************)
\* EncodeOptions::default().indent
DefaultIndent == 2

RECURSIVE Spaces(_)
\* " ".repeat(n)
Spaces(n) == IF n = 0 THEN <<>> ELSE <<" ">> \o Spaces(n - 1)

RECURSIVE StrLess(_, _)
\* String's Ord: lexicographic by code point
StrLess(a, b) ==
    IF b = <<>> THEN FALSE
    ELSE IF a = <<>> THEN TRUE
    ELSE IF Head(a) = Head(b) THEN StrLess(Tail(a), Tail(b))
    ELSE CodeOf(Head(a)) < CodeOf(Head(b))

RECURSIVE SortStrs(_)
\* Vec::sort of a vector of distinct strings, given as a set
SortStrs(S) ==
    IF S = {} THEN <<>>
    ELSE LET m == CHOOSE x \in S : \A y \in S \ {x} : StrLess(x, y)
         IN <<m>> \o SortStrs(S \ {m})

NoFields == [some |-> FALSE, fields |-> <<>>]

\* is_uniform_array_of_objects without the check for extra fields
is_uniform_no_len_check(arr) ==
    IF arr = <<>> THEN NoFields
    ELSE IF arr[1].t # "Object" THEN NoFields
    ELSE LET first_obj == arr[1].o
             fields == SortStrs({k \in Keys(first_obj) : is_primitive(get(first_obj, k))})
         IN IF fields = <<>> THEN NoFields
            ELSE IF \A i \in 2..Len(arr) :
                      /\ arr[i].t = "Object"
                      /\ \A j \in DOMAIN fields :
                            /\ contains_key(arr[i].o, fields[j])
                            /\ is_primitive(get(arr[i].o, fields[j]))
                 THEN [some |-> TRUE, fields |-> fields]
                 ELSE NoFields

\* Option<Vec<String>>: [some, fields]
is_uniform_array_of_objects(arr) ==
    IF arr = <<>> THEN NoFields
    ELSE IF arr[1].t # "Object" THEN NoFields
    ELSE LET first_obj == arr[1].o
             fields == SortStrs({k \in Keys(first_obj) : is_primitive(get(first_obj, k))})
         IN IF fields = <<>> THEN NoFields
            ELSE IF \A i \in 2..Len(arr) :
                      /\ arr[i].t = "Object"
                      /\ \A j \in DOMAIN fields :
                            /\ contains_key(arr[i].o, fields[j])
                            /\ is_primitive(get(arr[i].o, fields[j]))
                      /\ Len(arr[i].o) = Len(fields)
                 THEN [some |-> TRUE, fields |-> fields]
                 ELSE NoFields

\* the key as encode_object (inline) and encode_tabular_array (header) write it
encode_key(k) ==
    IF needs_quotes(k) THEN <<DQ>> \o escape_str(k) \o <<DQ>> ELSE k

\* write!(output, "{}{}\"{}: ", indent, "\"", escape_str(key)) and its else arm
encode_top_key(k, indent) ==
    IF needs_quotes(k)
    THEN indent \o <<DQ>> \o <<DQ>> \o escape_str(k) \o <<":", " ">>
    ELSE indent \o k \o <<":", " ">>

RECURSIVE encode_value(_, _, _, _), encode_array(_, _, _, _),
          encode_object(_, _, _, _), encode_tabular_array(_, _, _, _),
          encode_items(_, _, _, _), encode_lines(_, _, _, _),
          encode_entries(_, _, _, _), encode_top_entries(_, _, _, _),
          encode_row(_, _, _, _, _), encode_rows(_, _, _, _, _)

encode_value(v, level, indent, in_array) ==
    CASE v.t = "Null" -> T_null
      [] v.t = "Bool" -> IF v.b THEN T_true ELSE T_false
      [] v.t = "Number" -> format_number(v.n, v.sc)
      [] v.t = "String" ->
           IF needs_quotes(v.s) THEN <<DQ>> \o escape_str(v.s) \o <<DQ>> ELSE v.s
      [] v.t = "Array" -> encode_array(v.a, level, indent, in_array)
      [] v.t = "Object" -> encode_object(v.o, level, indent, in_array)

\* items i.. of an inline array, ", " between them, each at the given level
encode_items(arr, i, level, indent) ==
    IF i > Len(arr) THEN <<>>
    ELSE (IF i > 1 THEN <<",", " ">> ELSE <<>>)
         \o encode_value(arr[i], level, indent, TRUE)
         \o encode_items(arr, i + 1, level, indent)

\* items i.. of a top-level complex array, one per line
encode_lines(arr, i, level, indent) ==
    IF i > Len(arr) THEN <<>>
    ELSE (IF i > 1 THEN <<",", LF>> ELSE <<>>)
         \o Spaces(level * indent) \o Spaces(indent)
         \o encode_value(arr[i], level + 1, indent, TRUE)
         \o encode_lines(arr, i + 1, level, indent)

encode_array(arr, level, indent, in_array) ==
    IF arr = <<>> THEN <<"[", "]">>
    ELSE IF is_uniform_array_of_objects(arr).some
    THEN encode_tabular_array(arr, is_uniform_array_of_objects(arr).fields, level, indent)
    ELSE IF \A i \in DOMAIN arr : is_primitive(arr[i])
    THEN <<"[">> \o encode_items(arr, 1, 0, indent) \o <<"]">>
    ELSE IF in_array \/ level > 0
    THEN <<"[">> \o encode_items(arr, 1, level + 1, indent) \o <<"]">>
    ELSE <<"[", LF>> \o encode_lines(arr, 1, level, indent) \o <<LF>>
         \o Spaces(level * indent) \o <<"]">>

\* entries i.. of an inline object
encode_entries(obj, i, level, indent) ==
    IF i > Len(obj) THEN <<>>
    ELSE (IF i > 1 THEN <<",", " ">> ELSE <<>>)
         \o encode_key(obj[i][1]) \o <<":", " ">>
         \o encode_value(obj[i][2], level + 1, indent, FALSE)
         \o encode_entries(obj, i + 1, level, indent)

\* entries i.. of a top-level object, one per line
encode_top_entries(obj, i, level, indent) ==
    IF i > Len(obj) THEN <<>>
    ELSE (IF i > 1 THEN <<LF>> ELSE <<>>)
         \o encode_top_key(obj[i][1], Spaces(level * indent))
         \o (CASE obj[i][2].t = "Array" /\ obj[i][2].a # <<>> ->
                    encode_array(obj[i][2].a, level + 1, indent, FALSE)
               [] obj[i][2].t = "Object" /\ obj[i][2].o # <<>> ->
                    encode_object(obj[i][2].o, level + 1, indent, FALSE)
               [] OTHER -> encode_value(obj[i][2], level + 1, indent, FALSE))
         \o encode_top_entries(obj, i + 1, level, indent)

encode_object(obj, level, indent, in_array) ==
    IF obj = <<>> THEN <<"{", "}">>
    ELSE IF in_array \/ level > 0
    THEN <<"{">> \o encode_entries(obj, 1, level, indent) \o <<"}">>
    ELSE encode_top_entries(obj, 1, level, indent)

\* the columns j.. of one row
encode_row(obj, fields, j, level, indent) ==
    IF j > Len(fields) THEN <<>>
    ELSE (IF j > 1 THEN <<",", " ">> ELSE <<>>)
         \o (IF contains_key(obj, fields[j])
             THEN encode_value(get(obj, fields[j]), level + 1, indent, TRUE)
             ELSE T_null)
         \o encode_row(obj, fields, j + 1, level, indent)

RECURSIVE encode_rows_newline(_, _, _, _, _)
\* encode_rows with the row terminator written after every row
encode_rows_newline(arr, fields, i, level, indent) ==
    IF i > Len(arr) THEN <<>>
    ELSE (IF arr[i].t = "Object"
          THEN encode_row(arr[i].o, fields, 1, level, indent) \o <<LF>>
          ELSE <<>>)
         \o encode_rows_newline(arr, fields, i + 1, level, indent)

\* the rows i..
encode_rows(arr, fields, i, level, indent) ==
    IF i > Len(arr) THEN <<>>
    ELSE (IF arr[i].t = "Object"
          THEN encode_row(arr[i].o, fields, 1, level, indent)
               \o (IF i - 1 < Len(arr) - 1 THEN <<LF>> ELSE <<>>)
          ELSE <<>>)
         \o encode_rows(arr, fields, i + 1, level, indent)

RECURSIVE encode_header(_, _)
encode_header(fields, i) ==
    IF i > Len(fields) THEN <<>>
    ELSE (IF i > 1 THEN <<",", " ">> ELSE <<>>)
         \o encode_key(fields[i]) \o encode_header(fields, i + 1)

encode_tabular_array(arr, fields, level, indent) ==
    <<"[">> \o encode_header(fields, 1) \o <<"]", LF>>
    \o encode_rows(arr, fields, 1, level, indent)

\* write! into the output String: fmt::Write for String returns Ok(()) for
\* every text
write_status(s) == "Ok"

\* the first status of ss that is not "Ok"
first_failure(ss) ==
    IF \A i \in DOMAIN ss : ss[i] = "Ok" THEN "Ok"
    ELSE ss[CHOOSE i \in DOMAIN ss :
                ss[i] # "Ok" /\ \A m \in 1..(i - 1) : ss[m] = "Ok"]

\* obj[field] evaluated whether or not the key is present
index_evaluated_always(o, k) == TRUE

\* obj[field] is the right operand of ||: evaluated only when contains_key
\* holds
index_evaluated(o, k) == contains_key(o, k)

RECURSIVE uniform_loop(_, _, _, _)
\* the loops of is_uniform_array_of_objects over the items from the second
\* on and over the fields: "panic" when obj[field] is evaluated for a key
\* the map lacks
uniform_loop(arr, fields, i, j) ==
    IF i > Len(arr) THEN "Ok"
    ELSE IF arr[i].t # "Object" THEN "Ok"
    ELSE IF j > Len(fields)
    THEN IF Len(arr[i].o) # Len(fields) THEN "Ok"
         ELSE uniform_loop(arr, fields, i + 1, 1)
    ELSE IF index_evaluated(arr[i].o, fields[j]) /\ ~contains_key(arr[i].o, fields[j])
    THEN "panic"
    ELSE IF ~contains_key(arr[i].o, fields[j]) \/ ~is_primitive(get(arr[i].o, fields[j]))
    THEN "Ok"
    ELSE uniform_loop(arr, fields, i, j + 1)

uniform_status(arr) ==
    IF arr = <<>> THEN "Ok"
    ELSE IF arr[1].t # "Object" THEN "Ok"
    ELSE LET first_obj == arr[1].o
             fields == SortStrs({k \in Keys(first_obj) : is_primitive(get(first_obj, k))})
         IN IF fields = <<>> THEN "Ok" ELSE uniform_loop(arr, fields, 2, 1)

RECURSIVE encode_status(_, _, _, _)
\* the Result of encode_value: "Ok", "Serialization" for a failed write, or
\* "panic"
encode_status(v, level, indent, in_array) ==
    CASE v.t = "Array" ->
           IF v.a = <<>> THEN write_status(<<"[", "]">>)
           ELSE IF uniform_status(v.a) # "Ok" THEN uniform_status(v.a)
           ELSE IF is_uniform_array_of_objects(v.a).some
           THEN first_failure([i \in DOMAIN v.a |->
                    write_status(encode_value(v.a[i], level, indent, TRUE))])
           ELSE first_failure([i \in DOMAIN v.a |->
                    encode_status(v.a[i], level + 1, indent, TRUE)])
      [] v.t = "Object" ->
           IF v.o = <<>> THEN write_status(<<"{", "}">>)
           ELSE first_failure([i \in DOMAIN v.o |->
                    encode_status(v.o[i][2], level + 1, indent, FALSE)])
      [] OTHER -> write_status(encode_value(v, level, indent, in_array))

\* encode_with_options; only options.indent is read by the encoder
encode_with_options(v, indent) == encode_value(v, 0, indent, FALSE)

encode(v) == encode_with_options(v, DefaultIndent)

(***************************************************************************)
(* Decoder                                                                 *)
(***************************************************************************)
\* Parser state: pos is the index of `current` in the input (Len + 1 once the
\* iterator is exhausted), adv counts the calls of next()
new(inp) == [pos |-> 1, line |-> 1, col |-> 1, adv |-> 0]

current(inp, p) == IF p.pos <= Len(inp) THEN inp[p.pos] ELSE None

next(inp, p) ==
    LET q == IF p.pos <= Len(inp) THEN p.pos + 1 ELSE p.pos
        c == IF q <= Len(inp) THEN inp[q] ELSE None
    IN [pos  |-> q,
        line |-> IF c = LF THEN p.line + 1 ELSE p.line,
        col  |-> IF c = None THEN p.col ELSE IF c = LF THEN 1 ELSE p.col + 1,
        adv  |-> p.adv + 1]

\* Result<ToonValue, ToonError> together with the parser state left behind;
\* err "panic" stands for a failed assert_eq! or a reached unreachable!
Ok(v, p) == [ok |-> TRUE, val |-> v, err |-> "", p |-> p]
Err(kind, p) == [ok |-> FALSE, val |-> Null, err |-> kind, p |-> p]

RECURSIVE skip_whitespace(_, _)
skip_whitespace(inp, p) ==
    IF current(inp, p) # None /\ is_whitespace(current(inp, p))
    THEN skip_whitespace(inp, next(inp, p))
    ELSE p

RECURSIVE take_loop_no_break(_, _, _, _)
\* the loop of take_chars without the break at the end of the input
take_loop_no_break(inp, p, count, buf) ==
    IF count = 0 THEN [buf |-> buf, p |-> p]
    ELSE take_loop_no_break(inp, next(inp, p), count - 1,
                            IF current(inp, p) = None THEN buf
                            ELSE Append(buf, current(inp, p)))

RECURSIVE take_loop(_, _, _, _)
take_loop(inp, p, count, buf) ==
    IF count = 0 \/ current(inp, p) = None THEN [buf |-> buf, p |-> p]
    ELSE take_loop(inp, next(inp, p), count - 1, Append(buf, current(inp, p)))

take_chars(inp, p, count) == take_loop(inp, p, count, <<>>)

parse_keyword(inp, p, keyword, v) ==
    LET t == take_chars(inp, p, Len(keyword))
    IN IF t.buf = keyword THEN Ok(v, t.p) ELSE Err("InvalidFormat", t.p)

RECURSIVE ident_loop(_, _, _)
\* the while loop of parse_identifier
ident_loop(inp, p, ident) ==
    IF current(inp, p) # None /\ is_ident_continue(current(inp, p))
    THEN ident_loop(inp, next(inp, p), Append(ident, current(inp, p)))
    ELSE [buf |-> ident, p |-> p]

\* parse_identifier without the push of the first character
parse_identifier_skip_first(inp, p) ==
    LET c == current(inp, p)
    IN IF c # None /\ ~is_ident_start(c) THEN Err("InvalidFormat", p)
       ELSE LET r == IF c = None THEN [buf |-> <<>>, p |-> p]
                     ELSE ident_loop(inp, next(inp, p), <<>>)
            IN CASE r.buf = T_true -> Ok(Bool(TRUE), r.p)
                 [] r.buf = T_false -> Ok(Bool(FALSE), r.p)
                 [] r.buf = T_null -> Ok(Null, r.p)
                 [] OTHER -> Ok(String(r.buf), r.p)

parse_identifier(inp, p) ==
    LET c == current(inp, p)
    IN IF c # None /\ ~is_ident_start(c) THEN Err("InvalidFormat", p)
       ELSE LET r == IF c = None THEN [buf |-> <<>>, p |-> p]
                     ELSE ident_loop(inp, next(inp, p), <<c>>)
            IN CASE r.buf = T_true -> Ok(Bool(TRUE), r.p)
                 [] r.buf = T_false -> Ok(Bool(FALSE), r.p)
                 [] r.buf = T_null -> Ok(Null, r.p)
                 [] OTHER -> Ok(String(r.buf), r.p)

RECURSIVE digit_loop(_, _, _)
\* while let Some(c) = self.current { if c.is_ascii_digit() ... }
digit_loop(inp, p, buf) ==
    IF is_ascii_digit(current(inp, p))
    THEN digit_loop(inp, next(inp, p), Append(buf, current(inp, p)))
    ELSE [buf |-> buf, p |-> p]

RECURSIVE DigitsVal(_, _)
DigitsVal(ds, acc) ==
    IF ds = <<>> THEN acc ELSE DigitsVal(Tail(ds), acc * 10 + HexVal(Head(ds)))

RECURSIVE Normalize(_, _)
\* the decimal n / 10^sc with sc minimal and not negative
Normalize(n, sc) ==
    IF n = 0 THEN Number(0, 0)
    ELSE IF sc < 0 THEN Normalize(n * 10, sc + 1)
    ELSE IF sc > 0 /\ n % 10 = 0 THEN Normalize(n \div 10, sc - 1)
    ELSE Number(n, sc)

\* str::parse::<i64> and str::parse::<f64> on the text parse_number collected:
\* [-] intd [. fracd] [e [esign] expd].  Both fail on a text without mantissa
\* digits; the inputs of the model stay far below the i64 range
parse_num_str(neg, intd, fracd, eneg, expd, p) ==
    IF intd = <<>> /\ fracd = <<>> THEN Err("Deserialization", p)
    ELSE LET m == DigitsVal(intd \o fracd, 0)
             e == IF eneg THEN -DigitsVal(expd, 0) ELSE DigitsVal(expd, 0)
         IN Ok(Normalize(IF neg THEN -m ELSE m, Len(fracd) - e), p)

parse_number(inp, p) ==
    LET neg == current(inp, p) = "-"
        p1 == IF neg THEN next(inp, p) ELSE p
        ip == digit_loop(inp, p1, <<>>)
        has_decimal == current(inp, ip.p) = "."
        fp == IF has_decimal THEN digit_loop(inp, next(inp, ip.p), <<>>)
              ELSE [buf |-> <<>>, p |-> ip.p]
        has_exponent == current(inp, fp.p) \in {"e", "E"}
        p2 == next(inp, fp.p)
        signed == current(inp, p2) \in {"+", "-"}
        eneg == current(inp, p2) = "-"
        ep == IF has_exponent
              THEN digit_loop(inp, IF signed THEN next(inp, p2) ELSE p2, <<>>)
              ELSE [buf |-> <<>>, p |-> fp.p]
    IN IF has_decimal /\ fp.buf = <<>> THEN Err("InvalidFormat", fp.p)
       ELSE IF has_exponent /\ ep.buf = <<>> THEN Err("InvalidFormat", ep.p)
       ELSE parse_num_str(neg, ip.buf, fp.buf, has_exponent /\ eneg, ep.buf, ep.p)

\* the char an escape letter stands for in parse_string, None for the others
simple_escape(c) ==
    CASE c = DQ  -> DQ
      [] c = BSL -> BSL
      [] c = "/" -> "/"
      [] c = "b" -> BS
      [] c = "f" -> FF
      [] c = "n" -> LF
      [] c = "r" -> CR
      [] c = "t" -> TAB
      [] OTHER -> None

\* the tail of parse_string: the second unescape pass
string_finish(s, p) ==
    IF unescape_str(s).ok THEN Ok(String(unescape_str(s).s), p)
    ELSE Err("Deserialization", p)

RECURSIVE string_loop(_, _, _)
\* while let Some(c) = self.current { match c { ... } }
string_loop(inp, p, s) ==
    LET c == current(inp, p)
    IN IF c = None THEN string_finish(s, p)
       ELSE IF c = DQ THEN string_finish(s, next(inp, p))
       ELSE IF c = BSL
       THEN LET p1 == next(inp, p)
                e == current(inp, p1)
            IN IF e = "u"
               THEN LET h == take_chars(inp, next(inp, p1), 4)
                    IN IF Len(h.buf) # 4 THEN Err("InvalidFormat", h.p)
                       ELSE IF from_str_radix16(h.buf) < 0 THEN Err("InvalidFormat", h.p)
                       ELSE IF from_u32(from_str_radix16(h.buf)) = None
                       THEN Err("InvalidFormat", h.p)
                       ELSE string_loop(inp, next(inp, h.p),
                                        Append(s, from_u32(from_str_radix16(h.buf))))
               ELSE IF simple_escape(e) = None THEN Err("InvalidFormat", p1)
               ELSE string_loop(inp, next(inp, p1), Append(s, simple_escape(e)))
       ELSE string_loop(inp, next(inp, p), Append(s, c))

parse_string(inp, p) ==
    IF current(inp, p) # DQ THEN Err("panic", p)
    ELSE string_loop(inp, next(inp, p), <<>>)

RECURSIVE parse(_, _), parse_object(_, _), parse_array(_, _),
          object_loop(_, _, _), array_loop(_, _, _)

parse(inp, p0) ==
    LET p == skip_whitespace(inp, p0)
        c == current(inp, p)
    IN IF c = "{" THEN parse_object(inp, p)
       ELSE IF c = "[" THEN parse_array(inp, p)
       ELSE IF c = DQ THEN parse_string(inp, p)
       ELSE IF c = "t" THEN parse_keyword(inp, p, T_true, Bool(TRUE))
       ELSE IF c = "f" THEN parse_keyword(inp, p, T_false, Bool(FALSE))
       ELSE IF c = "n" THEN parse_keyword(inp, p, T_null, Null)
       ELSE IF is_ascii_digit(c) \/ c = "-" THEN parse_number(inp, p)
       ELSE IF c # None /\ is_ident_start(c) THEN parse_identifier(inp, p)
       ELSE Err("InvalidFormat", p)

\* the key of an object entry: parse_string, parse_identifier or an error
parse_key(inp, p) ==
    LET c == current(inp, p)
    IN IF c = DQ THEN parse_string(inp, p)
       ELSE IF c # None /\ is_ident_start(c) THEN parse_identifier(inp, p)
       ELSE Err("InvalidFormat", p)

\* one turn of the loop of parse_object
object_loop(inp, p0, obj) ==
    LET k == parse_key(inp, skip_whitespace(inp, p0))
    IN IF ~k.ok THEN k
       ELSE IF k.val.t # "String" THEN Err("panic", k.p)
       ELSE LET p1 == skip_whitespace(inp, k.p)
            IN IF current(inp, p1) # ":" THEN Err("InvalidFormat", p1)
               ELSE LET v == parse(inp, skip_whitespace(inp, next(inp, p1)))
                    IN IF ~v.ok THEN v
                       ELSE LET p2 == skip_whitespace(inp, v.p)
                                o2 == insert(obj, k.val.s, v.val)
                            IN IF current(inp, p2) = ","
                               THEN object_loop(inp, next(inp, p2), o2)
                               ELSE IF current(inp, p2) = "}"
                               THEN Ok(Object(o2), next(inp, p2))
                               ELSE Err("InvalidFormat", p2)

parse_object(inp, p) ==
    IF current(inp, p) # "{" THEN Err("panic", p)
    ELSE LET p1 == skip_whitespace(inp, next(inp, p))
         IN IF current(inp, p1) = "}" THEN Ok(Object(<<>>), next(inp, p1))
            ELSE object_loop(inp, p1, <<>>)

\* one turn of the loop of parse_array
array_loop(inp, p0, arr) ==
    LET v == parse(inp, skip_whitespace(inp, p0))
    IN IF ~v.ok THEN v
       ELSE LET p1 == skip_whitespace(inp, v.p)
            IN IF current(inp, p1) = ","
               THEN array_loop(inp, next(inp, p1), Append(arr, v.val))
               ELSE IF current(inp, p1) = "]"
               THEN Ok(Array(Append(arr, v.val)), next(inp, p1))
               ELSE Err("InvalidFormat", p1)

\* parse_array without the early return for the closing bracket
parse_array_no_empty(inp, p) ==
    IF current(inp, p) # "[" THEN Err("panic", p)
    ELSE array_loop(inp, skip_whitespace(inp, next(inp, p)), <<>>)

parse_array(inp, p) ==
    IF current(inp, p) # "[" THEN Err("panic", p)
    ELSE LET p1 == skip_whitespace(inp, next(inp, p))
         IN IF current(inp, p1) = "]" THEN Ok(Array(<<>>), next(inp, p1))
            ELSE array_loop(inp, p1, <<>>)

decode(inp) == parse(inp, new(inp))

(***************************************************************************)
(* Inputs                                                                  *)
(***************************************************************************)
MaxStrLen == 2
MaxArrLen == 3
MaxEntries == 2
MaxTextLen == 3
MaxDocEntries == 2

SeqsUpTo(S, n) == UNION {[1..k -> S] : k \in 0..n}

T_hello == <<"h","e","l","l","o">>
T_test == <<"t","e","s","t">>

\* characters the strings handed to encode and escape_str are made of
StrChars == {"a", "n", "_", "-", ".", "7", " ", DQ, BSL, LF, NUL, ESC, DEL, EAcute}

Strs == SeqsUpTo(StrChars, MaxStrLen)
          \cup {T_true, T_false, T_null, T_inf, T_neg_inf, T_nan, T_infinity,
                T_neg_infinity, T_hello, T_test, <<"f","o","o">>,
                <<"n","a","m","e">>, <<"a","-","b",".","c","_","7">>,
                <<"7","a">>, <<"a","b"," ">>, <<"i","n","f","o">>,
                <<"a", BSL, "n">>, <<TAB, CR, BS, FF, SOH>>}

Ints == {-120, -3, -1, 0, 7, 10, 42, 1000, 999999}

Prims == {Null, Bool(TRUE), Bool(FALSE)}
           \cup {Integer(n) : n \in Ints} \cup {String(s) : s \in Strs}

KeyA == <<"a">>
KeyB == <<"b">>
KeySp == <<"k"," ">>

\* elements of the arrays handed to encode
RowObjs ==
    { Object(<< <<KeyA, Integer(1)>> >>),
      Object(<< <<KeyA, Integer(1)>>, <<KeyB, String(<<"x">>)>> >>),
      Object(<< <<KeyB, String(<<"y">>)>>, <<KeyA, Integer(2)>> >>),
      Object(<< <<KeyA, Null>>, <<KeyB, Array(<<>>)>> >>),
      Object(<< <<KeyB, Bool(TRUE)>>, <<KeyA, Array(<<Integer(1)>>)>> >>),
      Object(<< <<KeySp, Integer(3)>>, <<KeyA, String(<<" ">>)>> >>) }

ArrElems == RowObjs \cup {Integer(7), String(T_test), Array(<<>>), Object(<<>>)}

Arrays == {Array(a) : a \in SeqsUpTo(ArrElems, MaxArrLen)}

ObjKeys == {KeyA, KeyB, KeySp}

ObjVals == {Null, Integer(1), String(T_test), String(<<"a"," ">>), Array(<<>>),
            Object(<<>>),
            Array(<<Array(<<>>), Integer(1)>>),
            Object(<< <<KeyA, Integer(1)>> >>),
            Array(<< Object(<< <<KeyA, Integer(1)>> >>), Object(<< <<KeyA, Integer(2)>> >>) >>)}

\* objects: every iteration order of every set of at most MaxEntries entries
Objects ==
    {Object(o) : o \in {e \in SeqsUpTo(ObjKeys \X ObjVals, MaxEntries) :
                          \A i, j \in DOMAIN e : e[i][1] = e[j][1] => i = j}}

Values == Prims \cup Arrays \cup Objects

Indents == {DefaultIndent, 0, 4}

\* characters of the short texts handed to decode
Sigma == {"{", "}", "[", "]", ":", ",", " ", DQ, "a", "1"}

ShortTexts == SeqsUpTo(Sigma, MaxTextLen)

RECURSIVE Flatten(_)
\* the concatenation of a sequence of texts
Flatten(ss) == IF ss = <<>> THEN <<>> ELSE Head(ss) \o Flatten(Tail(ss))

\* object texts {k: v, k: v} with bare keys
DocKeys == {KeyA, KeyB, T_true, T_false, T_null, <<"t","-","1">>}
DocVals == {<<"1">>, <<"2">>, <<"x">>, <<"[","a","]">>, <<"{","b",":","x","}">>}
DocEntries(keys) == {k \o <<":", " ">> \o v : k \in keys, v \in DocVals}

\* the texts sep-joined
Join(ss, sep) ==
    Flatten([i \in DOMAIN ss |-> (IF i > 1 THEN sep ELSE <<>>) \o ss[i]])

DocsOver(keys) ==
    {<<"{">> \o Join(es, <<",", " ">>) \o <<"}">> :
        es \in SeqsUpTo(DocEntries(keys), MaxDocEntries) \ {<<>>}}

ObjDocs == DocsOver(DocKeys)

\* the object texts none of whose keys spells true, false or null
PlainDocs == DocsOver(DocKeys \ {T_true, T_false, T_null})

\* complete texts, handed to decode whole and cut short at every length
Samples ==
    { <<"{","a",":"," ","1",","," ",DQ,"b"," ",DQ," ",":","[","1",",","x","]","}">>,
      <<"[","1",","," ","{",DQ,"k",DQ,":"," ",DQ,"s",BSL,"n",DQ,"}",",","[","]","]">>,
      <<DQ,"a","b",BSL,"u","0","0","4","1",BSL,DQ,"c",DQ>>,
      <<" ","{","t","r","u","e",":","1","}">>,
      <<"[","]"," ","x">>,
      <<"a",":"," ","1">>,
      <<"[","-","1",".","5","e","2",","," ","n","u","l","l","]">>,
      T_test, T_null, <<"t","r","u","e","x">>,
      <<"[","1",",",LF,"}">>, <<LF,"]">>, <<"[",LF,LF," ","1"," ","2","]">>,
      <<"{",LF," "," ","a",":"," ","1",",",LF," "," ","b"," ","2",LF,"}">>,
      <<DQ,BSL,"u","0","0","4","1","B",DQ>>, <<DQ,BSL,"u","0","0","4","1",DQ>>,
      <<"[",DQ,BSL,"u","0","0","4","1",DQ,"]">>,
      <<"[","f","o","o","]">>, <<"[","n","u","l","l","a","b","l","e","]">>,
      <<"[","t","r","u","e","]">>, <<"[","_","x","]">>,
      <<"{","a",":"," ","n","a","m","e","}">>,
      <<"{","a",":"," ","f","a","l","s","e","1","}">>,
      <<"{","a",":"," ","f","a","l","s","e","}">> }

Prefixes(S) == UNION {{Take(d, n) : n \in 0..Len(d)} : d \in S}

\* number-like texts: every choice of sign, integer part, fraction and
\* exponent, each present, absent or cut short
NumSigns == {<<>>, <<"-">>}
NumInts == {<<>>, <<"5">>, <<"1", "2">>}
NumFracs == {<<>>, <<".">>, <<".", "5">>, <<".", "2", "5">>}
NumExps == {<<>>, <<"e">>, <<"e", "3">>, <<"e", "-", "2">>, <<"E", "+", "1">>, <<"e", "-">>}
NumTexts == {s \o i \o f \o e : s \in NumSigns, i \in NumInts, f \in NumFracs, e \in NumExps}

\* object texts that spell one key bare and quoted
MixedDocs ==
    { <<"{","a",":"," ","1",","," ",DQ,"a",DQ,":"," ","2","}">>,
      <<"{",DQ,"a",DQ,":"," ","1",","," ","a",":"," ","x",","," ","b",":"," ","2","}">>,
      <<"{",DQ,"b",DQ,":"," ","1",","," ","a",":"," ","2",","," ",DQ,"b",DQ,":"," ","[","a","]","}">> }

Texts == ShortTexts \cup ObjDocs \cup Prefixes(Samples) \cup NumTexts \cup MixedDocs

NoResult == Err("none", new(<<>>))

RECURSIVE QuoteFrom(_, _, _)
\* the text with every bare key (an identifier followed by a colon, outside
\* quoted strings) put in double quotes; inStr: position i is inside a string
QuoteFrom(t, i, inStr) ==
    IF i > Len(t) THEN <<>>
    ELSE IF inStr
    THEN IF t[i] = BSL /\ i < Len(t)
         THEN <<t[i], t[i + 1]>> \o QuoteFrom(t, i + 2, TRUE)
         ELSE <<t[i]>> \o QuoteFrom(t, i + 1, t[i] # DQ)
    ELSE IF t[i] = DQ THEN <<DQ>> \o QuoteFrom(t, i + 1, TRUE)
    ELSE IF is_ident_start(t[i])
    THEN LET j == CHOOSE e \in i..Len(t) :
                     /\ \A m \in i..e : is_ident_continue(t[m])
                     /\ e = Len(t) \/ ~is_ident_continue(t[e + 1])
             rest == {m \in (j + 1)..Len(t) : ~is_whitespace(t[m])}
             isKey == rest # {} /\ t[CHOOSE m \in rest : \A m2 \in rest : m <= m2] = ":"
         IN (IF isKey THEN <<DQ>> \o SubSeq(t, i, j) \o <<DQ>> ELSE SubSeq(t, i, j))
            \o QuoteFrom(t, j + 1, FALSE)
    ELSE <<t[i]>> \o QuoteFrom(t, i + 1, FALSE)

QuoteKeys(t) == QuoteFrom(t, 1, FALSE)

(***************************************************************************)
(* The calls.  Every call starts from the idle state: the calls share no   *)
(* state (each has its own Parser and its own output String).              *)
(***************************************************************************)
Init == /\ op = "idle"
        /\ value = Null
        /\ text = <<>>
        /\ result = NoResult
        /\ prev = NoResult

\* Result<String, ToonError> of encode_with_options
encode_result(v, indent) ==
    LET st == encode_status(v, 0, indent, FALSE)
    IN IF st = "Ok" THEN Ok(Null, new(<<>>)) ELSE Err(st, new(<<>>))

\* encode_with_options(value, options); encode(value) is the call with the
\* default options
Encode ==
    /\ op = "idle"
    /\ \E v \in Values, indent \in Indents :
          /\ indent # DefaultIndent => v \in Arrays /\ Len(v.a) < MaxArrLen
          /\ op' = IF indent = DefaultIndent THEN "encode" ELSE "encode_with_options"
          /\ value' = v
          /\ result' = encode_result(v, indent)
          /\ text' = IF encode_result(v, indent).ok
                     THEN encode_with_options(v, indent) ELSE <<>>
    /\ UNCHANGED prev

\* decode applied to the text encode has just returned
DecodeEncoded ==
    /\ op = "encode"
    /\ op' = "roundtrip"
    /\ result' = decode(text)
    /\ UNCHANGED <<value, text, prev>>

\* decode(text)
Decode ==
    /\ op = "idle"
    /\ \E t \in Texts :
          /\ op' = "decode"
          /\ text' = t
          /\ result' = decode(t)
    /\ UNCHANGED <<value, prev>>

\* decode applied to the object text just decoded, its bare keys now quoted
DecodeQuoted ==
    /\ op = "decode"
    /\ text \in ObjDocs
    /\ op' = "decode_quoted"
    /\ prev' = result
    /\ result' = decode(QuoteKeys(text))
    /\ UNCHANGED <<value, text>>

\* escape_str(s)
Escape ==
    /\ op = "idle"
    /\ \E s \in Strs :
          /\ op' = "escape"
          /\ value' = String(s)
          /\ text' = escape_str(s)
    /\ UNCHANGED <<result, prev>>

\* unescape_str applied to the text escape_str has just returned
Unescape ==
    /\ op = "escape"
    /\ op' = "unescape"
    /\ result' = IF unescape_str(text).ok
                 THEN Ok(String(unescape_str(text).s), new(<<>>))
                 ELSE Err("Deserialization", new(<<>>))
    /\ UNCHANGED <<value, text, prev>>

Next == Encode \/ DecodeEncoded \/ Decode \/ DecodeQuoted \/ Escape \/ Unescape

Spec == Init /\ [][Next]_vars

(***************************************************************************)
(* Properties                                                              *)
(***************************************************************************)
EncodeOps == {"encode", "encode_with_options"}

ReservedTokens == {T_true, T_false, T_null, T_inf, T_neg_inf, T_nan,
                   T_infinity, T_neg_infinity}

\* a safe bare token: identifier-shaped and not a reserved token
IsBareToken(s) ==
    /\ s # <<>>
    /\ is_alphabetic(s[1]) \/ s[1] = "_"
    /\ \A i \in 2..Len(s) : is_alphanumeric(s[i]) \/ s[i] \in {"_", "-", "."}
    /\ s \notin ReservedTokens

RECURSIVE IsSafe(_)
\* built only from null, booleans, integers, arrays and objects whose string
\* keys and string values are safe bare tokens
IsSafe(v) ==
    CASE v.t = "Number" -> v.sc = 0
      [] v.t = "String" -> IsBareToken(v.s)
      [] v.t = "Array" -> \A i \in DOMAIN v.a : IsSafe(v.a[i])
      [] v.t = "Object" -> \A i \in DOMAIN v.o : IsBareToken(v.o[i][1]) /\ IsSafe(v.o[i][2])
      [] OTHER -> TRUE

\* C1: decode(encode(v)) succeeds and returns a value equal to v, for every
\* value v built only from null, booleans, integers, arrays and objects whose
\* string keys and string values are safe bare tokens
C1_RoundTrip ==
    (op = "roundtrip" /\ IsSafe(value))
        => (result.ok /\ Canon(result.val) = Canon(value))

\* C2: decode succeeds only when nothing but whitespace follows the first
\* complete top-level value
C2_WholeText ==
    (op = "decode" /\ result.ok)
        => \A i \in result.p.pos..Len(text) : is_whitespace(text[i])

RECURSIVE Scan(_, _, _, _)
\* where a text ends, by the grammar of the format: the stack of open
\* brackets ("o" for an object, "a" for an array) and the place in the
\* innermost construct; mode "bad" when the text is no prefix of a document
Scan(t, i, stk, mode) ==
    IF i > Len(t) \/ mode = "bad" THEN [stk |-> stk, mode |-> mode]
    ELSE LET c == t[i]
             ws == is_whitespace(c)
             pop == SubSeq(stk, 1, Len(stk) - 1)
             top == IF stk = <<>> THEN "" ELSE stk[Len(stk)]
             value_start ==
                 IF c = "{" THEN Scan(t, i + 1, Append(stk, "o"), "key0")
                 ELSE IF c = "[" THEN Scan(t, i + 1, Append(stk, "a"), "first")
                 ELSE IF c = DQ THEN Scan(t, i + 1, stk, "str")
                 ELSE IF c \in {"}", "]", ":", ","} THEN Scan(t, i, stk, "bad")
                 ELSE Scan(t, i + 1, stk, "scalar")
             key_start ==
                 IF c = DQ THEN Scan(t, i + 1, stk, "kstr")
                 ELSE IF is_ident_start(c) THEN Scan(t, i + 1, stk, "inkey")
                 ELSE Scan(t, i, stk, "bad")
             value_end ==
                 IF top = "a" /\ c = "," THEN Scan(t, i + 1, stk, "val")
                 ELSE IF top = "a" /\ c = "]" THEN Scan(t, i + 1, pop, "after")
                 ELSE IF top = "o" /\ c = "," THEN Scan(t, i + 1, stk, "key")
                 ELSE IF top = "o" /\ c = "}" THEN Scan(t, i + 1, pop, "after")
                 ELSE Scan(t, i, stk, "bad")
         IN CASE mode = "val" -> IF ws THEN Scan(t, i + 1, stk, mode) ELSE value_start
              [] mode = "first" ->
                   IF ws THEN Scan(t, i + 1, stk, mode)
                   ELSE IF c = "]" THEN Scan(t, i + 1, pop, "after")
                   ELSE value_start
              [] mode = "key0" ->
                   IF ws THEN Scan(t, i + 1, stk, mode)
                   ELSE IF c = "}" THEN Scan(t, i + 1, pop, "after")
                   ELSE key_start
              [] mode = "key" -> IF ws THEN Scan(t, i + 1, stk, mode) ELSE key_start
              [] mode = "inkey" ->
                   IF is_ident_continue(c) THEN Scan(t, i + 1, stk, mode)
                   ELSE Scan(t, i, stk, "afterkey")
              [] mode = "kstr" ->
                   Scan(t, i + 1, stk,
                        IF c = BSL THEN "kesc" ELSE IF c = DQ THEN "afterkey" ELSE mode)
              [] mode = "kesc" -> Scan(t, i + 1, stk, "kstr")
              [] mode = "afterkey" ->
                   IF ws THEN Scan(t, i + 1, stk, mode)
                   ELSE IF c = ":" THEN Scan(t, i + 1, stk, "val")
                   ELSE Scan(t, i, stk, "bad")
              [] mode = "str" ->
                   Scan(t, i + 1, stk,
                        IF c = BSL THEN "esc" ELSE IF c = DQ THEN "after" ELSE mode)
              [] mode = "esc" -> Scan(t, i + 1, stk, "str")
              [] mode = "scalar" ->
                   IF ws THEN Scan(t, i + 1, stk, "after")
                   ELSE IF c \in {",", "}", "]"} THEN value_end
                   ELSE IF c \in {DQ, "{", "[", ":"} THEN Scan(t, i, stk, "bad")
                   ELSE Scan(t, i + 1, stk, mode)
              [] mode = "after" -> IF ws THEN Scan(t, i + 1, stk, mode) ELSE value_end

\* the text ends inside an unfinished construct: an object after its brace, a
\* key, a colon or a comma; an array after its bracket or a comma; a quoted
\* string before its closing quote; an escape sequence
EndsUnfinished(t) ==
    LET e == Scan(t, 1, <<>>, "val")
    IN \/ e.mode \in {"str", "esc", "kstr", "kesc"}
       \/ e.stk # <<>> /\ e.mode \in {"val", "first", "key0", "key", "inkey", "afterkey"}

\* C3: when the input ends inside an unfinished construct, decode returns an
\* InvalidFormat error and never a value
C3_Truncated ==
    (op = "decode" /\ EndsUnfinished(text))
        => (~result.ok /\ result.err = "InvalidFormat")

C5_AlwaysQuoted ==
    op = "encode"
        => /\ value.t = "String" => text = <<DQ>> \o escape_str(value.s) \o <<DQ>>
           /\ value = Object(<< <<KeyB, String(T_test)>> >>)
                 => text = <<"b", ":", " ", DQ>> \o T_test \o <<DQ>>

\* C6: unescape_str(escape_str(s)) returns Ok(s)
C6_EscapeInverse ==
    op = "unescape" => (result.ok /\ result.val = value)

\* the tabular layout was used for a non-empty array: every other layout of
\* a non-empty array ends with the closing bracket, a row never does
UsedTabular == text[Len(text)] # "]"

\* the keys of the first element that hold a primitive value
HeaderSet(arr) == {k \in Keys(arr[1].o) : is_primitive(get(arr[1].o, k))}

\* C7: encode uses the tabular layout for a non-empty array only if every
\* element is an Object and every element after the first has exactly the
\* primitive-valued key set of the first, each key with a primitive value; an
\* element that is no object, misses a field, has an extra field or holds a
\* non-primitive value under a header field makes encode fall back
C7_TabularBoundary ==
    (op \in EncodeOps /\ value.t = "Array" /\ value.a # <<>>)
        => LET arr == value.a
               H == HeaderSet(arr)
           IN /\ UsedTabular =>
                    /\ \A i \in DOMAIN arr : arr[i].t = "Object"
                    /\ \A i \in 2..Len(arr) :
                          /\ Keys(arr[i].o) = H
                          /\ \A k \in H : is_primitive(get(arr[i].o, k))
              /\ ( \/ \E i \in DOMAIN arr : arr[i].t # "Object"
                   \/ \E i \in 2..Len(arr) :
                         \/ \E k \in H : k \notin Keys(arr[i].o)
                         \/ \E k \in Keys(arr[i].o) : k \notin H
                         \/ \E k \in H : ~is_primitive(get(arr[i].o, k)) )
                    => (~UsedTabular /\ text[1] = "[")

C7_Witness ==
    /\ op = "encode"
    /\ value = Array(<< Object(<< <<KeyA, Integer(1)>>, <<KeyB, String(<<"x">>)>> >>),
                        Object(<< <<KeyB, String(<<"y">>)>>, <<KeyA, Integer(2)>> >>),
                        Object(<< <<KeyA, Integer(1)>> >>) >>)
    /\ ~UsedTabular

\* the field names in ascending lexicographic order
SortedFields(H) ==
    CHOOSE f \in [1..Cardinality(H) -> H] :
        \A i, j \in DOMAIN f : i < j => StrLess(f[i], f[j])

\* the tabular text of arr: the header line, then one line per element
TabularText(arr, indent) ==
    LET f == SortedFields(HeaderSet(arr))
        row(i) == Join([j \in DOMAIN f |->
                          encode_value(get(arr[i].o, f[j]), 1, indent, TRUE)],
                       <<",", " ">>)
    IN <<"[">> \o Join([j \in DOMAIN f |-> encode_key(f[j])], <<",", " ">>) \o <<"]">>
       \o <<LF>> \o Join([i \in DOMAIN arr |-> row(i)], <<LF>>)

C9_BareQuotedKeys ==
    (op = "decode_quoted" /\ text \in PlainDocs)
        => /\ prev.ok
           /\ result.ok
           /\ Canon(result.val) = Canon(prev.val)

C9_Witness ==
    /\ op = "decode_quoted"
    /\ text = <<"{","a",":"," ","1",","," ","b",":"," ","2","}">>
    /\ QuoteKeys(text) = <<"{",DQ,"a",DQ,":"," ","1",","," ",DQ,"b",DQ,":"," ","2","}">>
    /\ result.ok
    /\ Canon(result.val) = Canon(Object(<< <<KeyB, Integer(2)>>, <<KeyA, Integer(1)>> >>))

\* C10: a bare key spelling true, false or null is the literal key text:
\* decode of {true: 1} is the object with the only key "true"
C10_KeywordKey ==
    \A k \in {T_true, T_false, T_null} :
        (op = "decode" /\ text = <<"{">> \o k \o <<":", " ", "1", "}">>)
            => (result.ok /\ Canon(result.val) = Canon(Object(<< <<k, Integer(1)>> >>)))

\* the characters of t that are no whitespace
Squeeze(t) == SelectSeq(t, LAMBDA c : ~is_whitespace(c))

IsEmptyColl(v) == v = Array(<<>>) \/ v = Object(<<>>)

\* the literal of an empty collection
EmptyLit(v) == IF v.t = "Array" THEN <<"[", "]">> ELSE <<"{", "}">>

\* C11: decode of [] is the empty Array and decode of {} the empty Object,
\* also with whitespace around and between the brackets; encode writes the
\* empty Array as [] and the empty Object as {} at top level, as an element of
\* an array and as the value under an object key
C11_EmptyCollections ==
    /\ op = "decode" =>
          /\ Squeeze(text) = <<"[", "]">> => (result.ok /\ result.val = Array(<<>>))
          /\ Squeeze(text) = <<"{", "}">> => (result.ok /\ result.val = Object(<<>>))
    /\ op = "encode" =>
          /\ IsEmptyColl(value) => text = EmptyLit(value)
          /\ (value.t = "Array" /\ value.a # <<>>
                /\ \A i \in DOMAIN value.a : IsEmptyColl(value.a[i]))
               => text = <<"[", LF>>
                         \o Join([i \in DOMAIN value.a |->
                                    Spaces(DefaultIndent) \o EmptyLit(value.a[i])],
                                 <<",", LF>>)
                         \o <<LF, "]">>
          /\ (value.t = "Object" /\ value.o # <<>>
                /\ \A i \in DOMAIN value.o :
                      IsBareToken(value.o[i][1]) /\ IsEmptyColl(value.o[i][2]))
               => text = Join([i \in DOMAIN value.o |->
                                 value.o[i][1] \o <<":", " ">> \o EmptyLit(value.o[i][2])],
                              <<LF>>)
          /\ value = Object(<< <<KeyA, Array(<<Array(<<>>), Integer(1)>>)>> >>)
               => text = <<"a", ":", " ", "[", "[", "]", ",", " ", "1", "]">>

C11_Witness ==
    /\ op = "encode"
    /\ value = Array(<<Object(<<>>), Array(<<>>)>>)
    /\ text = <<"[", LF, " ", " ", "{", "}", ",", LF, " ", " ", "[", "]", LF, "]">>

C11_WitnessDecode ==
    /\ op = "decode"
    /\ text = <<"{", " ", "}">>
    /\ result.ok
    /\ result.val = Object(<<>>)

\* t is the decimal integer text of n: an optional minus sign, then digits
\* only, without a leading zero, of value |n|
IsIntegerText(t, n) ==
    LET d == IF n < 0 THEN Tail(t) ELSE t
    IN /\ t # <<>>
       /\ n < 0 <=> t[1] = "-"
       /\ d # <<>>
       /\ \A i \in DOMAIN d : is_ascii_digit(d[i])
       /\ Len(d) > 1 => d[1] # "0"
       /\ DigitsVal(d, 0) = Abs(n)

\* C12: encode of an integer-valued Number n is the decimal integer text of
\* n, without decimal point or exponent, and decode of that text is Number(n)
C12_Integers ==
    (op \in {"encode", "roundtrip"} /\ value.t = "Number" /\ value.sc = 0)
        => /\ IsIntegerText(text, value.n)
           /\ op = "roundtrip" => (result.ok /\ result.val = value)

C12_Witness ==
    /\ op = "roundtrip"
    /\ value = Integer(42)
    /\ text = <<"4", "2">>
    /\ result.ok
    /\ result.val = Number(42, 0)

\* C13: encode and encode_with_options return Ok with a text for every value
\* and every indent, never a Serialization error (nor a panic)
C13_EncodeNeverFails == op \in EncodeOps => result.ok

C13_Witness ==
    /\ op = "encode"
    /\ value = Array(<< Object(<< <<KeyA, Integer(1)>>, <<KeyB, String(<<"x">>)>> >>),
                        Object(<< <<KeyA, Integer(1)>> >>) >>)
    /\ result.ok
    /\ text # <<>>

\* an identifier token: an identifier-start character, then
\* identifier-continue characters
IsIdentToken(t) ==
    /\ t # <<>>
    /\ is_ident_start(t[1])
    /\ \A i \in 2..Len(t) : is_ident_continue(t[i])

\* the three places of a value: top level, array element, object value
ValueContexts == {"top", "element", "member"}

ContextPrefix(ctx) ==
    CASE ctx = "top" -> <<>>
      [] ctx = "element" -> <<"[">>
      [] ctx = "member" -> <<"{", "a", ":", " ">>

ContextSuffix(ctx) ==
    CASE ctx = "top" -> <<>>
      [] ctx = "element" -> <<"]">>
      [] ctx = "member" -> <<"}">>

\* the text t is the token tok standing alone in the place ctx
IsTokenIn(t, ctx, tok) == t = ContextPrefix(ctx) \o tok \o ContextSuffix(ctx)

\* the tokens the text may hold in the place ctx
TokensIn(t, ctx) ==
    LET a == Len(ContextPrefix(ctx)) + 1
        b == Len(t) - Len(ContextSuffix(ctx))
    IN IF a <= b /\ IsTokenIn(t, ctx, SubSeq(t, a, b)) THEN {SubSeq(t, a, b)} ELSE {}

\* the value v as it is returned for the place ctx
InContext(ctx, v) ==
    CASE ctx = "top" -> v
      [] ctx = "element" -> Array(<<v>>)
      [] ctx = "member" -> Object(<< <<KeyA, v>> >>)

\* the value of an identifier token
IdentValue(tok) ==
    CASE tok = T_true -> Bool(TRUE)
      [] tok = T_false -> Bool(FALSE)
      [] tok = T_null -> Null
      [] OTHER -> String(tok)

\* C14: an identifier token in value position (top level, array element,
\* object value) decodes to Bool/Null when it spells true, false or null and
\* to the String of its text otherwise, whatever its first letter
C14_BareIdentifierValue ==
    op = "decode" =>
        \A ctx \in ValueContexts : \A tok \in TokensIn(text, ctx) :
            IsIdentToken(tok)
                => (result.ok /\ result.val = InContext(ctx, IdentValue(tok)))

\* C15: when the value begins with t, f or n, decode succeeds only for the
\* exact tokens true, false and null; a keyword followed by further
\* identifier characters is rejected with InvalidFormat, at top level and
\* nested in an array or an object
C15_StrictKeyword ==
    op = "decode" =>
        \A ctx \in ValueContexts : \A tok \in TokensIn(text, ctx) :
            (IsIdentToken(tok) /\ tok[1] \in {"t", "f", "n"})
                => /\ result.ok => tok \in {T_true, T_false, T_null}
                   /\ (\E k \in {T_true, T_false, T_null} :
                          Len(tok) > Len(k) /\ SubSeq(tok, 1, Len(k)) = k)
                        => (~result.ok /\ result.err = "InvalidFormat")

\* the quoted string that opens with the escape of U+0041
U0041 == <<DQ, BSL, "u", "0", "0", "4", "1">>

\* C16: in a quoted string \uXXXX consumes the backslash, the u and the four
\* hex digits, contributes the one character with that code and leaves the
\* cursor on the character after the fourth digit: "A" followed by plain
\* characters and the closing quote decodes to A followed by these characters
C16_UnicodeEscape ==
    (op = "decode" /\ Len(text) > Len(U0041)
       /\ SubSeq(text, 1, Len(U0041)) = U0041
       /\ text[Len(text)] = DQ
       /\ \A i \in (Len(U0041) + 1)..(Len(text) - 1) : text[i] \notin {DQ, BSL})
        => /\ result.ok
           /\ result.val = String(<<"A">> \o SubSeq(text, Len(U0041) + 1, Len(text) - 1))
           /\ result.p.pos = Len(text) + 1

IsDigits(s) == s # <<>> /\ \A i \in DOMAIN s : is_ascii_digit(s[i])

\* an exponent: e or E, an optional sign, one or more digits; or nothing
IsExponentOpt(r) ==
    \/ r = <<>>
    \/ /\ r[1] \in {"e", "E"}
       /\ LET x == Tail(r)
          IN IsDigits(IF x # <<>> /\ x[1] \in {"+", "-"} THEN Tail(x) ELSE x)

\* the number grammar: an optional minus sign, one or more digits, an
\* optional point with one or more digits, an optional exponent
WellFormedNumber(t) ==
    LET u == IF t # <<>> /\ t[1] = "-" THEN Tail(t) ELSE t
    IN \E a \in 1..Len(u) :
          /\ IsDigits(SubSeq(u, 1, a))
          /\ LET r == SubSeq(u, a + 1, Len(u))
             IN \/ IsExponentOpt(r)
                \/ /\ r[1] = "."
                   /\ \E b \in 2..Len(r) :
                         /\ IsDigits(SubSeq(r, 2, b))
                         /\ IsExponentOpt(SubSeq(r, b + 1, Len(r)))

\* C17: a number token is accepted only if it follows the number grammar,
\* with a digit before any point or exponent; the tokens -, -.5 and -e3 make
\* decode fail
C17_NumberGrammar ==
    (op = "decode" /\ text \in NumTexts /\ text # <<>>
       /\ (is_ascii_digit(text[1]) \/ text[1] = "-"))
        => /\ result.ok => WellFormedNumber(SubSeq(text, 1, result.p.pos - 1))
           /\ text \in {<<"-">>, <<"-", ".", "5">>, <<"-", "e", "3">>} => ~result.ok

\* the index of the first c in t, 0 when there is none
IndexOf(t, c) ==
    IF \E i \in DOMAIN t : t[i] = c
    THEN CHOOSE i \in DOMAIN t : t[i] = c /\ \A m \in 1..(i - 1) : t[m] # c
    ELSE 0

RECURSIVE SplitEntries(_)
\* the entries of an object text without its braces: the parts between the
\* separators ", " (no value of these texts holds a comma)
SplitEntries(t) ==
    IF IndexOf(t, ",") = 0 THEN <<t>>
    ELSE <<SubSeq(t, 1, IndexOf(t, ",") - 1)>>
         \o SplitEntries(SubSeq(t, IndexOf(t, ",") + 2, Len(t)))

EntriesOf(t) == SplitEntries(SubSeq(t, 2, Len(t) - 1))

\* the key of the entry "k: v", without its quotes
EntryKey(e) ==
    LET k == SubSeq(e, 1, IndexOf(e, ":") - 1)
    IN IF k[1] = DQ THEN SubSeq(k, 2, Len(k) - 1) ELSE k

\* the value text of the entry "k: v"
EntryVal(e) == SubSeq(e, IndexOf(e, ":") + 2, Len(e))

\* some key occurs in several entries
HasDuplicateKey(es) ==
    \E i, j \in DOMAIN es : i < j /\ EntryKey(es[i]) = EntryKey(es[j])

\* the last entry of es with the key k
LastEntry(es, k) ==
    es[CHOOSE i \in DOMAIN es :
          EntryKey(es[i]) = k /\ \A j \in DOMAIN es : EntryKey(es[j]) = k => j <= i]

\* C18: when an object text holds the same key several times, bare or
\* quoted, decode succeeds, the object has that key once, and its value is
\* the value of the last occurrence
C18_DuplicateKeys ==
    (op \in {"decode", "decode_quoted"} /\ text \in PlainDocs \cup MixedDocs
       /\ HasDuplicateKey(EntriesOf(text)))
        => LET es == EntriesOf(text)
           IN /\ result.ok
              /\ result.val.t = "Object"
              /\ Keys(result.val.o) = {EntryKey(es[i]) : i \in DOMAIN es}
              /\ \A k \in Keys(result.val.o) :
                    /\ Cardinality({j \in DOMAIN result.val.o : result.val.o[j][1] = k}) = 1
                    /\ Canon(get(result.val.o, k))
                         = Canon(decode(EntryVal(LastEntry(es, k))).val)

C18_Witness ==
    /\ op = "decode"
    /\ text = <<"{",DQ,"a",DQ,":"," ","1",","," ","a",":"," ","x",","," ","b",":"," ","2","}">>
    /\ result.ok
    /\ Canon(result.val) = Canon(Object(<< <<KeyA, String(<<"x">>)>>, <<KeyB, Integer(2)>> >>))

\* the 1-based line of position i of t: one more than the newlines before it
LineOf(t, i) == 1 + Cardinality({m \in 1..(i - 1) : t[m] = LF})

\* the 1-based column of position i of t: its distance from the last newline
\* before it, or from the start of the text
ColOf(t, i) ==
    LET nl == {m \in 1..(i - 1) : t[m] = LF}
    IN IF nl = {} THEN i ELSE i - (CHOOSE m \in nl : \A m2 \in nl : m2 <= m)

\* C19: (line, col) is the 1-based line and column of the character under
\* the cursor, so the position left by a parse - the one an error cites - is
\* that of the character the parse stopped at, also on multi-line inputs
C19_PositionTracking ==
    (op = "decode" /\ result.p.pos <= Len(text))
        => /\ result.p.line = LineOf(text, result.p.pos)
           /\ result.p.col = ColOf(text, result.p.pos)

\* a key as the quoting rule of strings writes it
QuotedPerRule(k) ==
    IF IsBareToken(k) THEN k ELSE <<DQ>> \o escape_str(k) \o <<DQ>>

\* C20: a non-empty Object at depth 0 is written one entry per line without
\* braces, the lines separated by one newline with none after the last, each
\* line the key, bare if it is a safe bare token and otherwise in one opening
\* and one closing quote, then ": " and the value
C20_TopLevelObject ==
    (op = "encode" /\ value.t = "Object" /\ value.o # <<>>)
        => text = Join([i \in DOMAIN value.o |->
                          QuotedPerRule(value.o[i][1]) \o <<":", " ">>
                          \o encode_value(value.o[i][2], 1, DefaultIndent, FALSE)],
                       <<LF>>)

\* the calls of Parser::next a parse may make beyond one per character
AdvanceSlack == 1

\* C21: decode ends on every input and the number of cursor advances is at
\* most the length of the input plus a constant: every loop of the parser
\* consumes a character per turn or exits
C21_Termination ==
    op \in {"decode", "roundtrip"}
        => /\ result.err # "none"
           /\ result.p.adv <= Len(text) + AdvanceSlack

C21_Witness ==
    /\ op = "decode"
    /\ text = <<"{",LF," "," ","a",":"," ","1",",",LF," "," ","b"," ","2",LF,"}">>
    /\ ~result.ok
    /\ result.p.adv = 14

\* C22: decode never reaches a failing assert_eq! or the unreachable! branch:
\* every input ends in a value or an Err value, not in a panic
C22_NoPanic ==
    op \in {"decode", "decode_quoted", "roundtrip"} => result.err # "panic"

\* C23: for every string s that encode renders quoted, decode(encode(String(s)))
\* succeeds and returns String(s): the escape handling of parse_string and its
\* unescape_str pass together undo escape_str once
C23_QuotedRoundTrip ==
    (op = "roundtrip" /\ value.t = "String" /\ needs_quotes(value.s))
        => (result.ok /\ result.val = value)

\* C24: when an array is rendered in the tabular layout, every key of every
\* element, the first included, is one of the header fields
C24_TabularKeepsFields ==
    (op \in EncodeOps /\ value.t = "Array" /\ value.a # <<>> /\ UsedTabular)
        => \A i \in DOMAIN value.a :
              Keys(value.a[i].o) \subseteq Range(is_uniform_array_of_objects(value.a).fields)

\* the newline characters of t
Newlines(t) == Cardinality({i \in DOMAIN t : t[i] = LF})

\* C25: an array or object rendered below the top level holds no newline:
\* the newlines of the output are then only those the top-level layout itself
\* writes - between the entries of a top-level object, and after the opening
\* bracket, between and after the elements of a multi-line top-level array
C25_NestedSingleLine ==
    op = "encode" =>
        /\ (value.t = "Object" /\ value.o # <<>>)
              => Newlines(text) = Len(value.o) - 1
        /\ (value.t = "Array" /\ value.a # <<>> /\ ~UsedTabular
              /\ \E i \in DOMAIN value.a : ~is_primitive(value.a[i]))
              => Newlines(text) = Len(value.a) + 1

====
